---- MODULE Spec2Model ----
(***************************************************************************)
(* Model of the Koch curve generator generate_snowflake                    *)
(* (Paralell-snowflakes/src-tauri/src/lib.rs) and of the task manager      *)
(* (task_manager/src/main.rs).                                             *)
(*                                                                         *)
(* Numbers.  Every coordinate the generator computes from the seed lies in *)
(* the field Q(sqrt 3) with a denominator dividing 2 * 6^k after k         *)
(* iterations.  A number is the record [r, s] standing for                 *)
(*        (r + s * sqrt(3)) / Scale,                                       *)
(* so + - * / are computed exactly and two numbers are equal iff their     *)
(* records are.  The rounding of the f64 operations is not modelled: the   *)
(* model is the real-number semantics of the code's expressions.           *)
(***************************************************************************)
EXTENDS Integers, Sequences, FiniteSets, TLC

\* largest iteration count a call is made with
MaxIter == 2
\* number of worker threads of the pool (rayon: available parallelism)
NumWorkers == 2
\* largest integer coordinate of the segments the closure is tried on
MaxCoord == 3
\* largest number of tasks added to the task manager
MaxAdds == 2

RECURSIVE Pow(_, _)
Pow(b, e) == IF e = 0 THEN 1 ELSE b * Pow(b, e - 1)

\* common denominator of all numbers of the model
Scale == 2 * Pow(6, MaxIter)

Workers == 1..NumWorkers

VARIABLES
    pc,          \* position of the call: "idle", "loop", "seq", "par", "merge", "done"
    iterations,  \* argument iterations: u32
    parallel,    \* argument parallel: bool
    points,      \* let mut points
    completed,   \* number of passes of `for _ in 0..iterations` finished
    segments,    \* let segments (this pass)
    new_points,  \* let new_points (being collected)
    pos,         \* per worker: segments of its slice already mapped
    buf,         \* per worker: the points it produced, owned by it
    order,       \* workers in the order they finished their slice
    mapped,      \* per segment of this pass: the workers that mapped it, in order
    seq_i,       \* sequential branch: segments already mapped
    result,      \* what the call returned: "none", "Ok"
    last,        \* the previous call: its arguments, the worker that finished
                 \* its last pass first, and the points it returned
    sub_seg,     \* closure under test: its argument (p1, p2)
    sub_par,     \* closure under test: TRUE the parallel one, FALSE the sequential
    sub_run,     \* closure under test: the Vec it returned (<<>> before the call)
    tasks,       \* TaskManager.tasks
    next_id,     \* TaskManager.next_id
    mutex,       \* the Mutex around the TaskManager: "free", "main", "saver"
    main_pc,     \* position of the main thread
    saver_pc,    \* position of the autosave thread
    command,     \* the Command the main thread parsed
    old_task,    \* complete_task: the task removed from the list
    before,      \* tasks and next_id when the current command took the lock
    printed,     \* what the current command printed
    json,        \* save: the serialized manager being written
    file,        \* content of SAVE_FILE
    adds         \* number of add commands executed

genVars == <<pc, iterations, parallel, points, completed, segments, new_points,
             pos, buf, order, mapped, seq_i, result, last>>
subVars == <<sub_seg, sub_par, sub_run>>
tmVars == <<tasks, next_id, mutex, main_pc, saver_pc, command, old_task, before,
            printed, json, file, adds>>
vars == <<pc, iterations, parallel, points, completed, segments, new_points,
          pos, buf, order, mapped, seq_i, result, last, sub_seg, sub_par, sub_run,
          tasks, next_id, mutex, main_pc, saver_pc, command, old_task, before,
          printed, json, file, adds>>

----------------------------------------------------------------------------
\* f64 arithmetic, exact in Q(sqrt 3)

Num(r, s) == [r |-> r, s |-> s]
\* an integer literal such as 0.0, 1.0, 3.0
Lit(n) == Num(n * Scale, 0)
NAdd(a, b) == Num(a.r + b.r, a.s + b.s)
NSub(a, b) == Num(a.r - b.r, a.s - b.s)
NMul(a, b) == Num((a.r * b.r + 3 * a.s * b.s) \div Scale,
                  (a.r * b.s + a.s * b.r) \div Scale)
\* division by an integer literal
NDiv(a, n) == Num(a.r \div n, a.s \div n)
\* 3.0f64.sqrt()
Sqrt3 == Num(0, Scale)

\* (k * PI / 3.0).cos() and .sin()
CosThirds(k) ==
    CASE k % 6 = 0 -> Lit(1)
      [] k % 6 = 1 -> NDiv(Lit(1), 2)
      [] k % 6 = 2 -> NDiv(Lit(-1), 2)
      [] k % 6 = 3 -> Lit(-1)
      [] k % 6 = 4 -> NDiv(Lit(-1), 2)
      [] k % 6 = 5 -> NDiv(Lit(1), 2)
SinThirds(k) ==
    CASE k % 6 = 0 -> Lit(0)
      [] k % 6 = 1 -> NDiv(Sqrt3, 2)
      [] k % 6 = 2 -> NDiv(Sqrt3, 2)
      [] k % 6 = 3 -> Lit(0)
      [] k % 6 = 4 -> NDiv(Num(0, -Scale), 2)
      [] k % 6 = 5 -> NDiv(Num(0, -Scale), 2)

Point(x, y) == [x |-> x, y |-> y]

----------------------------------------------------------------------------
\* the seed: let mut points = vec![...]

\* the seed without its closing point
SeedOpen ==
    << Point(Lit(0), Lit(1)),
       Point(CosThirds(2), SinThirds(2)),
       Point(CosThirds(4), SinThirds(4)) >>

Seed ==
    << Point(Lit(0), Lit(1)),
       Point(CosThirds(2), SinThirds(2)),
       Point(CosThirds(4), SinThirds(4)),
       Point(Lit(0), Lit(1)) >>

\* points.chunks(2): disjoint pairs where the code takes overlapping ones
WindowsAsChunks(ps) ==
    [i \in 1..(Len(ps) \div 2) |-> <<ps[2 * i - 1], ps[2 * i]>>]

\* points.windows(2).map(|p| (p[0].clone(), p[1].clone())).collect()
Windows(ps) ==
    IF Len(ps) < 2 THEN << >>
    ELSE [i \in 1..(Len(ps) - 1) |-> <<ps[i], ps[i + 1]>>]

\* the closure with p_a and p_c in each other's place
SeqSubdivideSwapped(p1, p2) ==
    LET dx == NSub(p2.x, p1.x)
        dy == NSub(p2.y, p1.y)
        p_a == Point(NAdd(p1.x, NDiv(dx, 3)), NAdd(p1.y, NDiv(dy, 3)))
        p_b == Point(NSub(NAdd(p1.x, NDiv(dx, 2)), NMul(dy, NDiv(Sqrt3, 6))),
                     NAdd(NAdd(p1.y, NDiv(dy, 2)), NMul(dx, NDiv(Sqrt3, 6))))
        p_c == Point(NAdd(p1.x, NDiv(NMul(Lit(2), dx), 3)),
                     NAdd(p1.y, NDiv(NMul(Lit(2), dy), 3)))
    IN  <<p1, p_c, p_b, p_a>>

\* the closure with p_a's y taken from p1.x
SeqSubdivideMixed(p1, p2) ==
    LET dx == NSub(p2.x, p1.x)
        dy == NSub(p2.y, p1.y)
        p_a == Point(NAdd(p1.x, NDiv(dx, 3)), NAdd(p1.x, NDiv(dy, 3)))
        p_b == Point(NSub(NAdd(p1.x, NDiv(dx, 2)), NMul(dy, NDiv(Sqrt3, 6))),
                     NAdd(NAdd(p1.y, NDiv(dy, 2)), NMul(dx, NDiv(Sqrt3, 6))))
        p_c == Point(NAdd(p1.x, NDiv(NMul(Lit(2), dx), 3)),
                     NAdd(p1.y, NDiv(NMul(Lit(2), dy), 3)))
    IN  <<p1, p_a, p_b, p_c>>

\* the closure of the sequential branch
SeqSubdivide(p1, p2) ==
    LET dx == NSub(p2.x, p1.x)
        dy == NSub(p2.y, p1.y)
        p_a == Point(NAdd(p1.x, NDiv(dx, 3)), NAdd(p1.y, NDiv(dy, 3)))
        p_b == Point(NSub(NAdd(p1.x, NDiv(dx, 2)), NMul(dy, NDiv(Sqrt3, 6))),
                     NAdd(NAdd(p1.y, NDiv(dy, 2)), NMul(dx, NDiv(Sqrt3, 6))))
        p_c == Point(NAdd(p1.x, NDiv(NMul(Lit(2), dx), 3)),
                     NAdd(p1.y, NDiv(NMul(Lit(2), dy), 3)))
    IN  <<p1, p_a, p_b, p_c>>

\* the closure with the apex displaced to the other side of the segment
ParSubdivideFlipped(p1, p2) ==
    LET dx == NSub(p2.x, p1.x)
        dy == NSub(p2.y, p1.y)
        p_a == Point(NAdd(p1.x, NDiv(dx, 3)), NAdd(p1.y, NDiv(dy, 3)))
        p_b == Point(NAdd(NAdd(p1.x, NDiv(dx, 2)), NMul(dy, NDiv(Sqrt3, 6))),
                     NSub(NAdd(p1.y, NDiv(dy, 2)), NMul(dx, NDiv(Sqrt3, 6))))
        p_c == Point(NAdd(p1.x, NDiv(NMul(Lit(2), dx), 3)),
                     NAdd(p1.y, NDiv(NMul(Lit(2), dy), 3)))
    IN  <<p1, p_a, p_b, p_c>>

\* the closure of the parallel branch
ParSubdivide(p1, p2) ==
    LET dx == NSub(p2.x, p1.x)
        dy == NSub(p2.y, p1.y)
        p_a == Point(NAdd(p1.x, NDiv(dx, 3)), NAdd(p1.y, NDiv(dy, 3)))
        p_b == Point(NSub(NAdd(p1.x, NDiv(dx, 2)), NMul(dy, NDiv(Sqrt3, 6))),
                     NAdd(NAdd(p1.y, NDiv(dy, 2)), NMul(dx, NDiv(Sqrt3, 6))))
        p_c == Point(NAdd(p1.x, NDiv(NMul(Lit(2), dx), 3)),
                     NAdd(p1.y, NDiv(NMul(Lit(2), dy), 3)))
    IN  <<p1, p_a, p_b, p_c>>

----------------------------------------------------------------------------
\* the parallel map: segments.par_iter().flat_map(..).collect::<Vec<Point>>()
\* The segment list is split into one contiguous slice per worker; a worker
\* maps the segments of its slice in order into a Vec it owns.

\* the first slice is as long as the code's, every later one starts one
\* segment early
SliceLoOverlap(w, n) ==
    IF w > 1 /\ ((w - 1) * n) \div NumWorkers > 0
    THEN ((w - 1) * n) \div NumWorkers - 1
    ELSE ((w - 1) * n) \div NumWorkers

SliceLo(w, n) == ((w - 1) * n) \div NumWorkers
SliceHi(w, n) == (w * n) \div NumWorkers
SliceLen(w, n) == SliceHi(w, n) - SliceLo(w, n)

RECURSIVE Concat(_, _, _)
\* b[ws[k]] \o b[ws[k+1]] \o ... for the worker sequence ws
Concat(b, ws, k) ==
    IF k > Len(ws) THEN << >> ELSE b[ws[k]] \o Concat(b, ws, k + 1)

\* collect() returning as soon as one worker has delivered
AnyDelivered(p, n) == \E w \in Workers : p[w] = SliceHi(w, n) - SliceLo(w, n)

\* collect() returns when every worker has mapped its whole slice
AllDelivered(p, n) == \A w \in Workers : p[w] = SliceHi(w, n) - SliceLo(w, n)

\* the workers' Vecs appended in the order the workers finished
GatherByCompletion(b, ord) == Concat(b, ord, 1)

\* collect(): the workers' Vecs appended in slice order
Gather(b, ord) == Concat(b, [w \in Workers |-> w], 1)

\* for _ in 0..=iterations
LoopInclusive(c, n) == c <= n

\* for _ in 0..iterations: is there another pass after c passes
LoopContinues(c, n) == c < n

\* the closing point taken from the wrong end of the last segment
CloseWithP1(np, segs) ==
    IF Len(segs) > 0 THEN Append(np, segs[Len(segs)][1]) ELSE np

\* the curve without the push of the closing point
CloseNoPush(np, segs) == np

\* let mut final_points = new_points;
\* if let Some(last_segment) = segments.last() { final_points.push(last_segment.1.clone()) }
Close(np, segs) ==
    IF Len(segs) > 0 THEN Append(np, segs[Len(segs)][2]) ELSE np

\* the worker that finished first (0: none)
First(ord) == IF Len(ord) > 0 THEN ord[1] ELSE 0

NoCall == [valid |-> FALSE, iterations |-> 0, parallel |-> FALSE,
           first |-> 0, points |-> << >>]
IdleSeg == <<Seed[1], Seed[2]>>

----------------------------------------------------------------------------
\* the task manager before main runs: TaskManager::load() without a save file

NoTask == [id |-> 0, description |-> "", state |-> "None"]
NoCommand == [op |-> "none", description |-> "", id |-> 0]
NoManager == [tasks |-> << >>, next_id |-> 0]
\* contents of the save file and of the string being written
NoFile == [state |-> "absent", tasks |-> << >>, next_id |-> 0]
Truncated == [state |-> "truncated", tasks |-> << >>, next_id |-> 0]

TmIdle ==
    /\ tasks = << >>
    /\ next_id = 1
    /\ mutex = "free"
    /\ main_pc = "read"
    /\ saver_pc = "sleep"
    /\ command = NoCommand
    /\ old_task = NoTask
    /\ before = NoManager
    /\ printed = ""
    /\ json = NoFile
    /\ file = NoFile
    /\ adds = 0

----------------------------------------------------------------------------
\* generate_snowflake(iterations, parallel)

Init ==
    /\ pc = "idle"
    /\ iterations = 0
    /\ parallel = FALSE
    /\ points = << >>
    /\ completed = 0
    /\ segments = << >>
    /\ new_points = << >>
    /\ pos = [w \in Workers |-> 0]
    /\ buf = [w \in Workers |-> << >>]
    /\ order = << >>
    /\ mapped = << >>
    /\ seq_i = 0
    /\ result = "none"
    /\ last = NoCall
    /\ sub_seg = IdleSeg
    /\ sub_par = FALSE
    /\ sub_run = << >>
    /\ TmIdle

\* the command is invoked: the seed is built and, for iterations == 0, returned
Call(n, par) ==
    /\ pc \in {"idle", "done"}
    /\ last' = IF pc = "done"
               THEN [valid |-> TRUE, iterations |-> iterations,
                     parallel |-> parallel, first |-> First(order), points |-> points]
               ELSE last
    /\ iterations' = n
    /\ parallel' = par
    /\ points' = Seed
    /\ completed' = 0
    /\ segments' = << >>
    /\ new_points' = << >>
    /\ pos' = [w \in Workers |-> 0]
    /\ buf' = [w \in Workers |-> << >>]
    /\ order' = << >>
    /\ mapped' = << >>
    /\ seq_i' = 0
    /\ IF n = 0
       THEN pc' = "done" /\ result' = "Ok"
       ELSE pc' = "loop" /\ result' = "none"
    /\ UNCHANGED subVars
    /\ UNCHANGED tmVars

\* a pass of the loop starts: the segments of the current curve
BeginPass ==
    /\ pc = "loop"
    /\ LoopContinues(completed, iterations)
    /\ segments' = Windows(points)
    /\ new_points' = << >>
    /\ pos' = [w \in Workers |-> 0]
    /\ buf' = [w \in Workers |-> << >>]
    /\ order' = << >>
    /\ mapped' = [i \in 1..Len(Windows(points)) |-> << >>]
    /\ seq_i' = 0
    /\ pc' = IF parallel THEN "par" ELSE "seq"
    /\ UNCHANGED <<iterations, parallel, points, completed, result, last>>
    /\ UNCHANGED subVars
    /\ UNCHANGED tmVars

\* sequential branch: the next segment is mapped and its run appended
SeqStep ==
    /\ pc = "seq"
    /\ seq_i < Len(segments)
    /\ new_points' = new_points \o
                     SeqSubdivide(segments[seq_i + 1][1], segments[seq_i + 1][2])
    /\ seq_i' = seq_i + 1
    /\ pc' = IF seq_i + 1 = Len(segments) THEN "merge" ELSE "seq"
    /\ UNCHANGED <<iterations, parallel, points, completed, segments,
                   pos, buf, order, mapped, result, last>>
    /\ UNCHANGED subVars
    /\ UNCHANGED tmVars

\* parallel branch: worker w maps the next segment of its slice
WorkerStep(w) ==
    /\ pc = "par"
    /\ pos[w] < SliceLen(w, Len(segments))
    /\ LET i == SliceLo(w, Len(segments)) + pos[w] + 1
       IN  /\ buf' = [buf EXCEPT ![w] = @ \o ParSubdivide(segments[i][1], segments[i][2])]
           /\ mapped' = [mapped EXCEPT ![i] = Append(@, w)]
    /\ pos' = [pos EXCEPT ![w] = @ + 1]
    /\ order' = IF pos[w] + 1 = SliceLen(w, Len(segments))
                THEN Append(order, w) ELSE order
    /\ UNCHANGED <<pc, iterations, parallel, points, completed, segments,
                   new_points, seq_i, result, last>>
    /\ UNCHANGED subVars
    /\ UNCHANGED tmVars

\* parallel branch: all workers are done, collect() builds the Vec
ParCollect ==
    /\ pc = "par"
    /\ AllDelivered(pos, Len(segments))
    /\ new_points' = Gather(buf, order)
    /\ pc' = "merge"
    /\ UNCHANGED <<iterations, parallel, points, completed, segments,
                   pos, buf, order, mapped, seq_i, result, last>>
    /\ UNCHANGED subVars
    /\ UNCHANGED tmVars

\* the closing point is pushed and the curve replaced
Merge ==
    /\ pc = "merge"
    /\ points' = Close(new_points, segments)
    /\ completed' = completed + 1
    /\ pc' = "loop"
    /\ UNCHANGED <<iterations, parallel, segments, new_points,
                   pos, buf, order, mapped, seq_i, result, last>>
    /\ UNCHANGED subVars
    /\ UNCHANGED tmVars

\* Ok(points)
Return ==
    /\ pc = "loop"
    /\ ~LoopContinues(completed, iterations)
    /\ result' = "Ok"
    /\ pc' = "done"
    /\ UNCHANGED <<iterations, parallel, points, completed, segments, new_points,
                   pos, buf, order, mapped, seq_i, last>>
    /\ UNCHANGED subVars
    /\ UNCHANGED tmVars

\* the steps of a call in progress
Advance ==
    \/ BeginPass
    \/ SeqStep
    \/ \E w \in Workers : WorkerStep(w)
    \/ ParCollect
    \/ Merge
    \/ Return

Next ==
    \/ \E n \in 0..MaxIter, par \in BOOLEAN : Call(n, par)
    \/ Advance

Spec == Init /\ [][Next]_vars

\* the call runs on a thread that is scheduled, and so are the pool's workers
FairSpec == Spec /\ WF_vars(Advance)

----------------------------------------------------------------------------
\* the closures on their own, on segments of a grid

Coords == {Num(i * Scale, j * Scale) : i \in -1..MaxCoord, j \in 0..1}
Grid == {Point(x, y) : x \in Coords, y \in Coords}

SubInit ==
    /\ pc = "idle"
    /\ iterations = 0
    /\ parallel = FALSE
    /\ points = << >>
    /\ completed = 0
    /\ segments = << >>
    /\ new_points = << >>
    /\ pos = [w \in Workers |-> 0]
    /\ buf = [w \in Workers |-> << >>]
    /\ order = << >>
    /\ mapped = << >>
    /\ seq_i = 0
    /\ result = "none"
    /\ last = NoCall
    /\ sub_seg \in Grid \X Grid
    /\ sub_par \in BOOLEAN
    /\ sub_run = << >>
    /\ TmIdle

SubApplySeq ==
    /\ sub_run = << >>
    /\ ~sub_par
    /\ sub_run' = SeqSubdivide(sub_seg[1], sub_seg[2])
    /\ UNCHANGED <<sub_seg, sub_par>>
    /\ UNCHANGED genVars
    /\ UNCHANGED tmVars

SubApplyPar ==
    /\ sub_run = << >>
    /\ sub_par
    /\ sub_run' = ParSubdivide(sub_seg[1], sub_seg[2])
    /\ UNCHANGED <<sub_seg, sub_par>>
    /\ UNCHANGED genVars
    /\ UNCHANGED tmVars

SubNext == SubApplySeq \/ SubApplyPar

SubSpec == SubInit /\ [][SubNext]_vars

----------------------------------------------------------------------------
\* Every division of the model is exact: the differences the closures divide
\* by 2, 3 and 6 are multiples of 6 in units of 1/Scale.

Div6(n) == n.r % 6 = 0 /\ n.s % 6 = 0
ExactSeg(sg) == Div6(NSub(sg[2].x, sg[1].x)) /\ Div6(NSub(sg[2].y, sg[1].y))
ExactArith ==
    /\ \A i \in 1..Len(segments) : ExactSeg(segments[i])
    /\ ExactSeg(sub_seg)

----------------------------------------------------------------------------
\* Properties

Running == pc \in {"loop", "seq", "par", "merge"}

\* the previous call had the same iteration count as the one that just returned
SameCount == pc = "done" /\ last.valid /\ last.iterations = iterations

\* C1: a parallel and a sequential call with the same iteration count return
\* sequences of the same length that are equal point by point, whatever the
\* order in which the workers of the parallel call finished.
C1_StrategyEquivalence ==
    (SameCount /\ last.parallel # parallel) =>
        /\ Len(points) = Len(last.points)
        /\ \A i \in 1..Len(points) : points[i] = last.points[i]

\* a parallel call of 2 iterations whose last pass finished worker 2 first has
\* returned after a sequential call of 2 iterations
C1_Witness ==
    /\ SameCount /\ iterations = 2
    /\ parallel /\ ~last.parallel
    /\ order # << >> /\ order[1] # 1

\* C2: in the parallel branch the collected Vec holds the run of segment i
\* (0-based) at positions 4i..4i+3, for every order in which the workers
\* finished: the runs stand in segment order, not in completion order.
C2_GatherInIndexOrder ==
    (pc = "merge" /\ parallel) =>
        /\ Len(new_points) = 4 * Len(segments)
        /\ \A i \in 0..(Len(segments) - 1) :
              SubSeq(new_points, 4 * i + 1, 4 * i + 4)
                  = ParSubdivide(segments[i + 1][1], segments[i + 1][2])

\* the Vec has been collected after the last worker finished first
C2_Witness ==
    /\ pc = "merge" /\ parallel
    /\ Len(segments) > NumWorkers
    /\ Len(order) = NumWorkers
    /\ order[1] = NumWorkers

\* C3: the first and the last point of the curve are equal, at every pass
\* boundary and in the returned curve, for both strategies.
C3_Closure ==
    pc # "idle" => (Len(points) > 0 /\ points[1] = points[Len(points)])

\* a parallel call has returned the closed curve of its second pass
C3_Witness ==
    /\ pc = "done" /\ parallel /\ completed = 2
    /\ points[1] = points[Len(points)]
    /\ points # Seed

\* C4: the seed has 4 points, every pass turns a curve of N points into one of
\* exactly 4 * (N - 1) + 1 points, and one pass yields 13 points.
C4_GrowthLaw ==
    /\ []((pc # "idle" /\ completed = 0) => Len(points) = 4)
    /\ [][completed' = completed + 1 => Len(points') = 4 * (Len(points) - 1) + 1]_vars
    /\ [](completed = 1 => Len(points) = 13)

\* the second pass of a sequential call has turned 13 points into 49
C4_Witness ==
    /\ pc = "loop" /\ ~parallel /\ completed = 2
    /\ Len(segments) = 12
    /\ Len(points) = 49

\* the four points the zero-iteration call is to return
SeedVertices ==
    << Point(Num(0, 0), Num(Scale, 0)),
       Point(Num(-(Scale \div 2), 0), Num(0, Scale \div 2)),
       Point(Num(-(Scale \div 2), 0), Num(0, -(Scale \div 2))),
       Point(Num(0, 0), Num(Scale, 0)) >>

\* C5: a call with 0 iterations returns, for either strategy and without a
\* pass of the loop, the seed: (0,1), (cos 120, sin 120), (cos 240, sin 240), (0,1).
C5_ZeroIterationIdentity ==
    (pc = "done" /\ iterations = 0) =>
        /\ points = SeedVertices
        /\ result = "Ok"
        /\ completed = 0
        /\ segments = << >>

\* a parallel zero-iteration call has returned after a call that iterated
C5_Witness ==
    /\ pc = "done" /\ iterations = 0 /\ parallel
    /\ last.valid /\ last.iterations > 0

\* C6: two calls with the same iteration count and the same strategy return
\* identical sequences, also when the workers of the two parallel calls
\* finished in different orders.
C6_Determinism ==
    (SameCount /\ last.parallel = parallel) => points = last.points

\* two parallel calls of 2 iterations have returned, their workers having
\* finished the last pass in different orders
C6_Witness ==
    /\ SameCount /\ iterations = 2
    /\ parallel /\ last.parallel
    /\ First(order) # last.first

\* C7: a call starts the loop with the seed and 0 completed passes, returns
\* Ok after exactly `iterations` passes, never a failure, and a call in
\* progress always returns.
C7_Terminates ==
    /\ []((pc = "loop" /\ completed = 0) => points = Seed)
    /\ [](pc = "done" => (completed = iterations /\ result = "Ok"))
    /\ [](result \in {"none", "Ok"})
    /\ (Running ~> pc = "done")

\* a call of MaxIter iterations has returned
C7_Witness ==
    /\ pc = "done" /\ iterations = MaxIter /\ completed = MaxIter
    /\ result = "Ok"

----------------------------------------------------------------------------
\* Geometry of the properties, in the numbers of the model

\* r + s * sqrt(3) > 0
Positive(n) ==
    IF n.r >= 0 /\ n.s >= 0 THEN n.r > 0 \/ n.s > 0
    ELSE IF n.r <= 0 /\ n.s <= 0 THEN FALSE
    ELSE IF n.r > 0 THEN n.r * n.r > 3 * n.s * n.s
    ELSE 3 * n.s * n.s > n.r * n.r
Negative(n) == Positive(NSub(Lit(0), n))

\* squared distance of two points
DistSq(p, q) ==
    LET dx == NSub(q.x, p.x)
        dy == NSub(q.y, p.y)
    IN  NAdd(NMul(dx, dx), NMul(dy, dy))

Origin == Point(Lit(0), Lit(0))

\* z component of (q - p) x (v - p): positive iff v is left of the line p -> q
Cross(p, q, v) ==
    NSub(NMul(NSub(q.x, p.x), NSub(v.y, p.y)),
         NMul(NSub(q.y, p.y), NSub(v.x, p.x)))

\* v and w lie strictly on opposite sides of the line through p and q
OppositeSides(p, q, v, w) ==
    \/ Positive(Cross(p, q, v)) /\ Negative(Cross(p, q, w))
    \/ Negative(Cross(p, q, v)) /\ Positive(Cross(p, q, w))

\* C8: the closure of either branch maps (p1, p2) to exactly [p1, A, B, C]
\* with A = p1 + (dx/3, dy/3), C = p1 + (2dx/3, 2dy/3) and
\* B = (p1.x + dx/2 - dy*sqrt(3)/6, p1.y + dy/2 + dx*sqrt(3)/6); (0,0), (3,0)
\* gives A = (1,0), C = (2,0), B = (1.5, sqrt(3)/2), and the apex of a
\* rightward segment lies above it.
C8_SubdivisionFormula ==
    sub_run # << >> =>
        LET p1 == sub_seg[1]
            p2 == sub_seg[2]
            dx == NSub(p2.x, p1.x)
            dy == NSub(p2.y, p1.y)
            Times(k, n) == Num(k * n.r, k * n.s)
            TimesSqrt3(n) == Num(3 * n.s, n.r)
            a == sub_run[2]
            b == sub_run[3]
            c == sub_run[4]
        IN  /\ Len(sub_run) = 4
            /\ sub_run[1] = p1
            /\ Times(3, NSub(a.x, p1.x)) = dx
            /\ Times(3, NSub(a.y, p1.y)) = dy
            /\ Times(3, NSub(c.x, p1.x)) = Times(2, dx)
            /\ Times(3, NSub(c.y, p1.y)) = Times(2, dy)
            /\ Times(6, NSub(b.x, p1.x)) = NSub(Times(3, dx), TimesSqrt3(dy))
            /\ Times(6, NSub(b.y, p1.y)) = NAdd(Times(3, dy), TimesSqrt3(dx))
            /\ (p1 = Point(Num(0, 0), Num(0, 0)) /\ p2 = Point(Num(3 * Scale, 0), Num(0, 0)))
                  => sub_run = << Point(Num(0, 0), Num(0, 0)),
                                  Point(Num(Scale, 0), Num(0, 0)),
                                  Point(Num(3 * (Scale \div 2), 0), Num(0, Scale \div 2)),
                                  Point(Num(2 * Scale, 0), Num(0, 0)) >>
            /\ (dy = Num(0, 0) /\ Positive(dx)) => Positive(NSub(b.y, p1.y))

\* the closure of the parallel branch has mapped the segment (0,0), (3,0)
C8_Witness ==
    /\ sub_par
    /\ sub_seg = <<Point(Num(0, 0), Num(0, 0)), Point(Num(3 * Scale, 0), Num(0, 0))>>
    /\ Len(sub_run) = 4
    /\ sub_run[3] = Point(Num(3 * (Scale \div 2), 0), Num(0, Scale \div 2))

\* C9: the three vertices of the seed are at distance 1 from the origin and
\* its three sides have the same length (an equilateral triangle inscribed in
\* the unit circle).
C9_SeedEquilateral ==
    (pc # "idle" /\ completed = 0) =>
        /\ \A i \in 1..3 : DistSq(Origin, points[i]) = Lit(1)
        /\ DistSq(points[1], points[2]) = DistSq(points[2], points[3])
        /\ DistSq(points[2], points[3]) = DistSq(points[3], points[4])

\* the vertices of the seed are at distance 1 from the origin
C9_SeedOnUnitCircle ==
    (pc # "idle" /\ completed = 0) =>
        \A i \in 1..3 : DistSq(Origin, points[i]) = Lit(1)

\* the vertex of the seed triangle that is not an end of its k-th segment
ThirdVertex(k) == Seed[((k + 1) % 3) + 1]

\* C10: for every segment of the seed, in traversal order, the apex B of the
\* first pass lies on the side of the segment opposite to the interior of the
\* seed triangle.
C10_ApexOutward ==
    completed = 1 =>
        \A k \in 1..3 :
            OppositeSides(Seed[k], Seed[k + 1], points[4 * (k - 1) + 3], ThirdVertex(k))

\* in the curve of the first pass every apex lies on the same side of its
\* seed segment as the third vertex of the seed, the interior side
C10_ApexInward ==
    completed = 1 =>
        \A k \in 1..3 :
            /\ Positive(Cross(Seed[k], Seed[k + 1], points[4 * (k - 1) + 3]))
            /\ Positive(Cross(Seed[k], Seed[k + 1], ThirdVertex(k)))

----------------------------------------------------------------------------
\* Properties of a pass

\* C11: the current curve is always the complete curve of `completed` passes
\* (growth law and closure hold of it), it is replaced only when every
\* segment of the pass, in the parallel branch every worker, has delivered
\* its run, and the returned curve is that of `iterations` passes.
C11_NoPartialResult ==
    /\ [](pc # "idle" =>
            /\ Len(points) = 3 * Pow(4, completed) + 1
            /\ points[1] = points[Len(points)])
    /\ [](pc = "done" => completed = iterations)
    /\ [][points' # points =>
            \/ pc \in {"idle", "done"}
            \/ /\ pc = "merge"
               /\ Len(new_points) = 4 * Len(segments)
               /\ parallel =>
                    \A w \in Workers : Len(buf[w]) = 4 * SliceLen(w, Len(segments))
               /\ ~parallel => seq_i = Len(segments)]_vars

\* during the second parallel pass one worker has delivered runs, another has
\* not finished, and the curve is still the 13 points of the first pass
C11_Witness ==
    /\ pc = "par" /\ completed = 1
    /\ \E w \in Workers : buf[w] # << >>
    /\ \E w \in Workers : pos[w] < SliceLen(w, Len(segments))
    /\ Len(points) = 13

\* C12: a zero-length segment (p1 = p2) is mapped, without failure, to four
\* points that all equal p1.
C12_DegenerateSegment ==
    (sub_run # << >> /\ sub_seg[1] = sub_seg[2]) =>
        /\ Len(sub_run) = 4
        /\ \A i \in 1..4 : sub_run[i] = sub_seg[1]

\* the sequential closure has mapped a zero-length segment off the diagonal
C12_Witness ==
    /\ ~sub_par
    /\ sub_seg[1] = sub_seg[2]
    /\ sub_seg[1].x # sub_seg[1].y
    /\ Len(sub_run) = 4

\* C13: a pass leaves both end points of the curve unchanged, the new last
\* point being p2 of the last segment, so both end points always equal the
\* first vertex of the seed.
C13_EndPointsKept ==
    /\ [][completed' = completed + 1 =>
            /\ points'[1] = points[1]
            /\ points'[Len(points')] = points[Len(points)]
            /\ points'[Len(points')] = segments[Len(segments)][2]]_vars
    /\ [](pc # "idle" =>
            /\ points[1] = Seed[1]
            /\ points[Len(points)] = Seed[1])

\* the second parallel pass has been merged and the 49th point is the seed's
\* first vertex
C13_Witness ==
    /\ pc = "loop" /\ parallel /\ completed = 2
    /\ Len(points) = 49
    /\ points[49] = Seed[1]
    /\ points[48] # Seed[1]

RECURSIVE RunsOf(_, _, _)
\* the runs of the k segments after segment lo, in order
RunsOf(segs, lo, k) ==
    IF k = 0 THEN << >>
    ELSE RunsOf(segs, lo, k - 1) \o ParSubdivide(segs[lo + k][1], segs[lo + k][2])

\* the workers whose slice holds segment i (1-based)
Owners(i, n) == {w \in Workers : SliceLo(w, n) < i /\ i <= SliceHi(w, n)}

\* C14: in a parallel pass the slices are disjoint and cover the segment
\* list, every segment is mapped at most once and, when the pass is
\* collected, exactly once, by the worker that owns it; a worker's Vec holds
\* the runs of its own segments only, and a step of a worker changes no other
\* worker's state.
C14_DisjointSlices ==
    /\ []((pc \in {"par", "merge"} /\ parallel) =>
            LET n == Len(segments) IN
            /\ \A i \in 1..n : Cardinality(Owners(i, n)) = 1
            /\ \A i \in 1..n : Len(mapped[i]) <= 1
            /\ \A i \in 1..n : mapped[i] # << >> => mapped[i][1] \in Owners(i, n)
            /\ pc = "merge" => \A i \in 1..n : Len(mapped[i]) = 1
            /\ \A w \in Workers : buf[w] = RunsOf(segments, SliceLo(w, n), pos[w]))
    /\ [][(pc = "par" /\ pc' = "par") =>
            Cardinality({w \in Workers : buf'[w] # buf[w] \/ pos'[w] # pos[w]}) <= 1]_vars

\* in the second parallel pass both the first and the last worker have mapped
\* a part of their slices
C14_Witness ==
    /\ pc = "par" /\ completed = 1
    /\ pos[1] > 0 /\ pos[1] < SliceLen(1, Len(segments))
    /\ pos[NumWorkers] > 0 /\ pos[NumWorkers] < SliceLen(NumWorkers, Len(segments))
    /\ mapped[1] = <<1>>
    /\ mapped[Len(segments)] = << >>

----------------------------------------------------------------------------
\* The task manager (task_manager/src/main.rs)

Descriptions == {"a", "b"}

\* Task::new(id, description), stored as AnyTask::Pending
NewTask(id, description) ==
    [id |-> id, description |-> description, state |-> "Pending"]

\* complete() that loses the description
CompleteBlank(t) == [id |-> t.id, description |-> "", state |-> "Completed"]

\* Task<Pending>::complete, stored as AnyTask::Completed
Complete(t) == [id |-> t.id, description |-> t.description, state |-> "Completed"]

\* the search of complete_task without the test for Pending
IsTarget(t, id) == t.id = id

\* |t| t.id() == id && matches!(t, AnyTask::Pending(_))
IsPendingTarget(t, id) == t.id = id /\ t.state = "Pending"

\* self.tasks.iter().position(..): 0 for None
Position(ts, id) ==
    IF \E i \in 1..Len(ts) : IsPendingTarget(ts[i], id)
    THEN CHOOSE i \in 1..Len(ts) :
            /\ IsPendingTarget(ts[i], id)
            /\ \A j \in 1..(i - 1) : ~IsPendingTarget(ts[j], id)
    ELSE 0

\* self.tasks.remove(pos)
Remove(ts, i) == SubSeq(ts, 1, i - 1) \o SubSeq(ts, i + 1, Len(ts))

\* add_task that leaves next_id as it is
SameId(n) == n

\* self.next_id += 1
IncrementId(n) == n + 1

\* serde_json::to_string_pretty(self): every task as its variant tag with its
\* id and description, then next_id
ToJson(ts, n) ==
    [state |-> "written",
     tasks |-> [i \in 1..Len(ts) |-> <<ts[i].state, ts[i].id, ts[i].description>>],
     next_id |-> n]

\* a lock() that does not wait
NeverWaits(m) == TRUE

\* lock() returns when no thread holds the mutex
CanLock(m) == m = "free"

\* the autosave thread keeps its guard over the sleep
GuardKept(m) == m

\* the guard of the autosave thread is dropped at the end of the loop body
GuardDropped(m) == "free"

Commands ==
    {[op |-> "add", description |-> d, id |-> 0] : d \in Descriptions}
    \cup {[op |-> "complete", description |-> "", id |-> i] : i \in 1..(MaxAdds + 1)}
    \cup {[op |-> "list", description |-> "", id |-> 0],
          [op |-> "help", description |-> "", id |-> 0]}

\* read_line returns a line that parses to a Command
ReadCommand(c) ==
    /\ main_pc = "read"
    /\ c.op = "add" => (adds < MaxAdds /\ Len(tasks) < MaxAdds)
    /\ command' = c
    /\ main_pc' = "lock"
    /\ UNCHANGED <<tasks, next_id, mutex, saver_pc, old_task, before, printed,
                   json, file, adds>>
    /\ UNCHANGED <<genVars, subVars>>

\* a line that is no command: the error is printed and the loop goes on
ReadInvalid ==
    /\ main_pc = "read"
    /\ printed' = "Error: Invalid command"
    /\ UNCHANGED <<tasks, next_id, mutex, main_pc, saver_pc, command, old_task,
                   before, json, file, adds>>
    /\ UNCHANGED <<genVars, subVars>>

\* exit, quit, end of input or a read error: break
ReadEnd ==
    /\ main_pc = "read"
    /\ main_pc' = "final"
    /\ printed' = ""
    /\ UNCHANGED <<tasks, next_id, mutex, saver_pc, command, old_task, before,
                   json, file, adds>>
    /\ UNCHANGED <<genVars, subVars>>

\* let mut manager = task_manager.lock().unwrap()
MainLock ==
    /\ main_pc = "lock"
    /\ CanLock(mutex)
    /\ mutex' = "main"
    /\ before' = [tasks |-> tasks, next_id |-> next_id]
    /\ printed' = ""
    /\ main_pc' = command.op
    /\ UNCHANGED <<tasks, next_id, saver_pc, command, old_task, json, file, adds>>
    /\ UNCHANGED <<genVars, subVars>>

\* add_task: the new task is pushed
AddPush ==
    /\ main_pc = "add"
    /\ tasks' = Append(tasks, NewTask(next_id, command.description))
    /\ printed' = "Added task"
    /\ main_pc' = "add_inc"
    /\ UNCHANGED <<next_id, mutex, saver_pc, command, old_task, before, json, file, adds>>
    /\ UNCHANGED <<genVars, subVars>>

\* add_task: self.next_id += 1
AddIncrement ==
    /\ main_pc = "add_inc"
    /\ next_id' = IncrementId(next_id)
    /\ adds' = adds + 1
    /\ main_pc' = "unlock"
    /\ UNCHANGED <<tasks, mutex, saver_pc, command, old_task, before, printed, json, file>>
    /\ UNCHANGED <<genVars, subVars>>

\* complete_task: the task is looked for and, when found, removed
CompleteFind ==
    /\ main_pc = "complete"
    /\ LET task_pos == Position(tasks, command.id)
       IN  IF task_pos # 0
           THEN /\ old_task' = tasks[task_pos]
                /\ tasks' = Remove(tasks, task_pos)
                /\ main_pc' = "complete_push"
                /\ UNCHANGED printed
           ELSE /\ printed' = "Error: not found or already completed"
                /\ main_pc' = "unlock"
                /\ UNCHANGED <<tasks, old_task>>
    /\ UNCHANGED <<next_id, mutex, saver_pc, command, before, json, file, adds>>
    /\ UNCHANGED <<genVars, subVars>>

\* complete_task: a removed pending task is pushed back completed
CompletePush ==
    /\ main_pc = "complete_push"
    /\ IF old_task.state = "Pending"
       THEN /\ tasks' = Append(tasks, Complete(old_task))
            /\ printed' = "Completed task"
       ELSE UNCHANGED <<tasks, printed>>
    /\ old_task' = NoTask
    /\ main_pc' = "unlock"
    /\ UNCHANGED <<next_id, mutex, saver_pc, command, before, json, file, adds>>
    /\ UNCHANGED <<genVars, subVars>>

\* list_tasks and print_help
ListOrHelp ==
    /\ main_pc \in {"list", "help"}
    /\ printed' = main_pc
    /\ main_pc' = "unlock"
    /\ UNCHANGED <<tasks, next_id, mutex, saver_pc, command, old_task, before,
                   json, file, adds>>
    /\ UNCHANGED <<genVars, subVars>>

\* the guard `manager` goes out of scope
MainUnlock ==
    /\ main_pc = "unlock"
    /\ mutex' = "free"
    /\ command' = NoCommand
    /\ before' = NoManager
    /\ main_pc' = "read"
    /\ UNCHANGED <<tasks, next_id, saver_pc, old_task, printed, json, file, adds>>
    /\ UNCHANGED <<genVars, subVars>>

\* final save: task_manager.lock().unwrap()
FinalLock ==
    /\ main_pc = "final"
    /\ CanLock(mutex)
    /\ mutex' = "main"
    /\ main_pc' = "final_save"
    /\ UNCHANGED <<tasks, next_id, saver_pc, command, old_task, before, printed,
                   json, file, adds>>
    /\ UNCHANGED <<genVars, subVars>>

\* save: the manager is serialized and fs::write opens the file, truncating it
FinalSave ==
    /\ main_pc = "final_save"
    /\ json' = ToJson(tasks, next_id)
    /\ file' = Truncated
    /\ main_pc' = "final_write"
    /\ UNCHANGED <<tasks, next_id, mutex, saver_pc, command, old_task, before,
                   printed, adds>>
    /\ UNCHANGED <<genVars, subVars>>

\* save: fs::write writes the string; the temporary guard is dropped
FinalWrite ==
    /\ main_pc = "final_write"
    /\ file' = json
    /\ json' = NoFile
    /\ mutex' = "free"
    /\ main_pc' = "goodbye"
    /\ UNCHANGED <<tasks, next_id, saver_pc, command, old_task, before, printed, adds>>
    /\ UNCHANGED <<genVars, subVars>>

\* main returns: the process ends and the autosave thread with it, wherever
\* it is
Exit ==
    /\ main_pc = "goodbye"
    /\ main_pc' = "exit"
    /\ saver_pc' = "dead"
    /\ UNCHANGED <<tasks, next_id, mutex, command, old_task, before, printed,
                   json, file, adds>>
    /\ UNCHANGED <<genVars, subVars>>

\* autosave: thread::sleep(15 s) returns
SaverWake ==
    /\ saver_pc = "sleep"
    /\ saver_pc' = "lock"
    /\ UNCHANGED <<tasks, next_id, mutex, main_pc, command, old_task, before,
                   printed, json, file, adds>>
    /\ UNCHANGED <<genVars, subVars>>

\* autosave: let manager = saver_manager.lock().unwrap()
SaverLock ==
    /\ saver_pc = "lock"
    /\ CanLock(mutex)
    /\ mutex' = "saver"
    /\ saver_pc' = "save"
    /\ UNCHANGED <<tasks, next_id, main_pc, command, old_task, before, printed,
                   json, file, adds>>
    /\ UNCHANGED <<genVars, subVars>>

\* autosave: save serializes the manager and fs::write truncates the file
SaverSave ==
    /\ saver_pc = "save"
    /\ json' = ToJson(tasks, next_id)
    /\ file' = Truncated
    /\ saver_pc' = "write"
    /\ UNCHANGED <<tasks, next_id, mutex, main_pc, command, old_task, before,
                   printed, adds>>
    /\ UNCHANGED <<genVars, subVars>>

\* autosave: fs::write writes the string; the guard is dropped and the
\* thread sleeps again
SaverWrite ==
    /\ saver_pc = "write"
    /\ file' = json
    /\ json' = NoFile
    /\ mutex' = GuardDropped(mutex)
    /\ saver_pc' = "sleep"
    /\ UNCHANGED <<tasks, next_id, main_pc, command, old_task, before, printed, adds>>
    /\ UNCHANGED <<genVars, subVars>>

\* the steps of the main thread after a line was read
MainStep ==
    \/ AddPush
    \/ AddIncrement
    \/ CompleteFind
    \/ CompletePush
    \/ ListOrHelp
    \/ MainUnlock
    \/ FinalSave
    \/ FinalWrite
    \/ Exit

SaverStep ==
    \/ SaverWake
    \/ SaverSave
    \/ SaverWrite

TmInit ==
    /\ pc = "idle"
    /\ iterations = 0
    /\ parallel = FALSE
    /\ points = << >>
    /\ completed = 0
    /\ segments = << >>
    /\ new_points = << >>
    /\ pos = [w \in Workers |-> 0]
    /\ buf = [w \in Workers |-> << >>]
    /\ order = << >>
    /\ mapped = << >>
    /\ seq_i = 0
    /\ result = "none"
    /\ last = NoCall
    /\ sub_seg = IdleSeg
    /\ sub_par = FALSE
    /\ sub_run = << >>
    /\ TmIdle

TmNext ==
    \/ \E c \in Commands : ReadCommand(c)
    \/ ReadInvalid
    \/ ReadEnd
    \/ MainLock
    \/ FinalLock
    \/ MainStep
    \/ SaverLock
    \/ SaverStep

TmSpec == TmInit /\ [][TmNext]_vars

\* both threads are scheduled, and a thread that asks for the mutex gets it:
\* the autosave thread holds it for one save and then sleeps 15 s, the main
\* thread holds it for one command and then waits for input
TmFairSpec ==
    /\ TmSpec
    /\ WF_vars(MainStep)
    /\ WF_vars(SaverStep)
    /\ SF_vars(MainLock)
    /\ SF_vars(FinalLock)
    /\ SF_vars(SaverLock)

----------------------------------------------------------------------------
\* Properties of the task manager

\* the tasks of a list, as a set
TaskSet(ts) == {ts[i] : i \in 1..Len(ts)}

\* the list holds a pending task with this id
HasPending(ts, id) == \E i \in 1..Len(ts) : ts[i].id = id /\ ts[i].state = "Pending"

\* a complete command has run to its end and the guard is not yet dropped
CompleteRan == main_pc = "unlock" /\ command.op = "complete"

\* C15: complete_task(id) on a list with a pending task of that id turns
\* exactly that task into a Completed one with the same id and description
\* and leaves the number of tasks, every other task and next_id unchanged;
\* no command turns a Completed task Pending again or loses a task.
C15_CompleteTask ==
    /\ (CompleteRan /\ HasPending(before.tasks, command.id)) =>
          LET old == CHOOSE x \in TaskSet(before.tasks) :
                        x.id = command.id /\ x.state = "Pending"
              new == [id |-> old.id, description |-> old.description,
                      state |-> "Completed"]
          IN  /\ Len(tasks) = Len(before.tasks)
              /\ next_id = before.next_id
              /\ new \in TaskSet(tasks)
              /\ old \notin TaskSet(tasks)
              /\ TaskSet(tasks) \ {new} = TaskSet(before.tasks) \ {old}
    /\ main_pc = "unlock" =>
          \A x \in TaskSet(before.tasks) :
              \E y \in TaskSet(tasks) :
                  /\ y.id = x.id
                  /\ y.description = x.description
                  /\ x.state = "Completed" => y.state = "Completed"

\* the second of two tasks has been completed, the first is still pending
C15_Witness ==
    /\ CompleteRan /\ command.id = 2
    /\ printed = "Completed task"
    /\ Len(tasks) = 2
    /\ tasks[1].state = "Pending"
    /\ tasks[2] = [id |-> 2, description |-> "b", state |-> "Completed"]

\* the positions of the main thread inside a command or the final save
MainInside == {"add", "add_inc", "complete", "complete_push", "list", "help",
               "unlock", "final_save", "final_write"}

\* a serialized manager that holds the tasks 1 .. next_id - 1, each once
WholeSnapshot(j) ==
    /\ j.next_id = Len(j.tasks) + 1
    /\ \A id \in 1..Len(j.tasks) :
          Cardinality({i \in 1..Len(j.tasks) : j.tasks[i][2] = id}) = 1

\* C16: the autosave thread and the main thread are never inside the mutex
\* together, so what autosave serializes is the state between two commands
\* (never the state between the removal and the re-insertion of a task) and
\* holds every task exactly once.
C16_SaveIsExclusive ==
    /\ ~(saver_pc \in {"save", "write"} /\ main_pc \in MainInside)
    /\ saver_pc = "write" =>
          /\ json = ToJson(tasks, next_id)
          /\ WholeSnapshot(json)
          /\ Len(json.tasks) = adds
    /\ file.state = "written" => WholeSnapshot(file)

\* autosave writes two tasks while the main thread waits for the mutex with
\* a complete command
C16_Witness ==
    /\ saver_pc = "write" /\ mutex = "saver"
    /\ main_pc = "lock" /\ command.op = "complete"
    /\ Len(json.tasks) = 2

\* C17: when the command loop has ended, the main thread saves, and the last
\* content written to the save file is the final task list and next_id,
\* whatever the autosave thread does.
C17_FinalSaveIsLast ==
    main_pc = "exit" => file = ToJson(tasks, next_id)

\* the final save itself writes the final state, and when the process has
\* ended the file holds that state or was truncated by an autosave cut short
C17_FinalSaveWritten ==
    /\ main_pc = "goodbye" => file \in {ToJson(tasks, next_id), Truncated}
    /\ main_pc = "exit" => file \in {ToJson(tasks, next_id), Truncated}

\* C18: complete_task(id) with an id that no pending task has (not in the
\* list, or already completed) reports an error and leaves the tasks, their
\* states, their order and next_id unchanged.
C18_CompleteMissing ==
    (CompleteRan /\ ~HasPending(before.tasks, command.id)) =>
        /\ printed = "Error: not found or already completed"
        /\ tasks = before.tasks
        /\ next_id = before.next_id

\* complete was asked for a task that is already completed
C18_Witness ==
    /\ CompleteRan
    /\ \E i \in 1..Len(tasks) : tasks[i].id = command.id /\ tasks[i].state = "Completed"
    /\ printed = "Error: not found or already completed"
    /\ tasks = before.tasks

\* C19: from a fresh manager, between commands, all ids are pairwise
\* distinct and smaller than next_id, and next_id is 1 plus the number of add
\* commands executed.
C19_Ids ==
    main_pc # "add_inc" =>
        /\ \A i, j \in 1..Len(tasks) : i # j => tasks[i].id # tasks[j].id
        /\ \A i \in 1..Len(tasks) : tasks[i].id < next_id
        /\ next_id = 1 + adds

\* MaxAdds tasks were added and the first one completed
C19_Witness ==
    /\ main_pc = "read"
    /\ adds = MaxAdds /\ Len(tasks) = MaxAdds
    /\ tasks[Len(tasks)].id = 1
    /\ tasks[Len(tasks)].state = "Completed"

\* C20: no thread holds the mutex while it sleeps, waits for input or asks
\* for the mutex, and under fair scheduling every request for the mutex is
\* granted (for the autosave thread: unless the process ends first) and
\* every entered command is applied.
C20_NoDeadlock ==
    /\ [](saver_pc \in {"sleep", "lock"} => mutex # "saver")
    /\ [](main_pc \in {"read", "lock", "final"} => mutex # "main")
    /\ (main_pc = "lock" ~> main_pc = "unlock")
    /\ (main_pc = "final" ~> main_pc = "final_save")
    /\ (saver_pc = "lock" ~> saver_pc \in {"save", "dead"})

\* the main thread asks for the mutex for its final save while autosave holds it
C20_Witness ==
    /\ main_pc = "final"
    /\ mutex = "saver" /\ saver_pc = "save"
    /\ adds = MaxAdds

====
